---- MODULE Spec2Model ----
(***************************************************************************)
(* Model of compiam:                                                       *)
(*   - compiam/dunya/__init__.py: Corpora.get_metadata / _get_metadata     *)
(*     (metadata aggregation and deduplication) and save_annotation        *)
(*     (writer dispatch);                                                  *)
(*   - compiam/melody/pattern/sancara_search/__init__.py: CAEWrapper       *)
(*     (configuration validation, extract_features, get_cqt,               *)
(*     to_amp_phase).                                                      *)
(* The three parts share no state; each has its own specification.         *)
(***************************************************************************)
EXTENDS Integers, Sequences, FiniteSets, TLC

\* ------------------------------------------------------------------------
\* Bounds
\* ------------------------------------------------------------------------
MaxRecs == 2        \* recordings in the collection listing
MaxId == 2          \* distinct identifiers per entity kind
MaxEntities == 2    \* entries accumulated during one aggregation pass
MaxDeviations == 2  \* keys of a configuration that are absent or of another type
MaxNgram == 2       \* largest length_ngram
MaxRate == 2        \* largest sampling rate
MaxFrames == 3      \* frames of a time-frequency matrix
MaxWords == 2       \* words a subtype string is made of
MaxCalls == 2       \* get_metadata calls on one Corpora object

VARIABLES
    \* ---- Corpora.get_metadata / _get_metadata ----
    call,           \* position of get_metadata: idle, running, returned, raised
    collection,     \* what get_collection returned: sequence of recording mbids
    idx,            \* index of the recording the for loop is at
    stage,          \* which of the five loops of the loop body is current
    pos,            \* "fetch": at its get_recording call; "loop": walking its list
    acc,            \* the local accumulators of _get_metadata
    metadata,       \* the dictionary _get_metadata returned
    attrs,          \* the seven attributes get_metadata sets on the object
    listing_ok,     \* history: get_collection succeeded
    failed,         \* history: loop indices whose try block raised
    added,          \* history: the current recording has appended an entry
    kept,           \* history: the accumulators hold an entry appended by a
                    \* recording whose try block raised
    fetches,        \* history: get_recording calls issued so far for the
                    \* recording fetched last
    entry,          \* history: the entry the current artists loop took last
    calls,          \* history: get_metadata calls made on the object
    served          \* history: recordings listed and entries appended in
                    \* the calls before the current one

VARIABLES
    \* ---- CAEWrapper ----
    cae,            \* the object: "new", "ready" (constructed), "failed"
    params,         \* self.params, the loaded configuration
    unpacked,       \* the parameters set as attributes of the object
    model_loaded,   \* self.model is set
    cuda,           \* self.cuda
    error,          \* the exception the constructor raised
    last_call,      \* the last method called on the object and its sr argument
    transform_sr,   \* the sr the last call handed to to_cqt_repr
    ngrams,         \* the list ngrams the last to_amp_phase built
    result          \* what the last call returned or raised

VARIABLES
    \* ---- Corpora.save_annotation ----
    subtype,        \* the subtype argument of the last call
    written,        \* the writers the last call invoked, in order
    outcome         \* how the last call ended

mvars == <<call, collection, idx, stage, pos, acc, metadata, attrs,
           listing_ok, failed, added, kept, fetches, entry, calls, served>>

cvars == <<cae, params, unpacked, model_loaded, cuda, error, last_call,
           transform_sr, ngrams, result>>

svars == <<subtype, written, outcome>>

vars == <<mvars, cvars, svars>>

\* ------------------------------------------------------------------------
\* Values
\* ------------------------------------------------------------------------
SeqsUpTo(S, n) == UNION {[1..k -> S] : k \in 0..n}

\* the listings get_collection may return: n documents with distinct mbids,
\* here n down to 1 (an mbid is an opaque name)
Collections == {[i \in 1..n |-> n + 1 - i] : n \in 0..MaxRecs}

\* the values of the attributes of an entity other than its identifier
Names == {"a", "b"}

\* Python's None: subscripting it raises TypeError
None == [isNone |-> TRUE]

\* A record (dict) of an entity with identifier field key
Entity(key, i, n) == [k \in {key, "name"} |-> IF k = key THEN i ELSE n]

\* The dicts of one entity kind a detail record may hold: well formed, or
\* lacking the identifier field. Identifier 1 comes with either attribute
\* value, so that a list can hold two different records of one identifier
Entities(key) ==
    {Entity(key, 1, n) : n \in Names}
    \cup {Entity(key, i, "a") : i \in 1..MaxId}
    \cup {[name |-> "a"]}

\* The entries of a detail record's "artists" list
ArtistEntries ==
    {[lead |-> l, artist |-> a, instrument |-> i] :
        l \in BOOLEAN, a \in Entities("mbid"), i \in Entities("mbid") \cup {None}}
    \cup {[artist |-> Entity("mbid", 1, "a"), instrument |-> Entity("mbid", 1, "a")]}
    \cup {[lead |-> TRUE, instrument |-> Entity("mbid", 1, "a")]}
    \cup {[lead |-> l, artist |-> Entity("mbid", 1, "a")] : l \in BOOLEAN}

Stages == <<"artists", "concert", "work", "raaga", "taala">>

ListNames == {"artist_list", "concert_list", "work_list", "raga_list",
              "tala_list", "instrument_list"}

\* the identifier field each returned list is keyed by (lines 143-148)
KeyOf(name) == IF name \in {"raga_list", "tala_list"} THEN "uuid" ELSE "mbid"

\* the accumulator each non-artist loop appends to (lines 126-136)
ListOf(st) ==
    CASE st = "concert" -> "concert_list"
      [] st = "work" -> "work_list"
      [] st = "raaga" -> "raga_list"
      [] st = "taala" -> "tala_list"

\* no iteration of an artists loop is under way
NoEntry == [none |-> TRUE]

EmptyAcc == [recording_list |-> <<>>, artist_list |-> <<>>,
             concert_list |-> <<>>, work_list |-> <<>>, raga_list |-> <<>>,
             tala_list |-> <<>>, instrument_list |-> <<>>]

TotalLen(a) ==
    Len(a.artist_list) + Len(a.concert_list) + Len(a.work_list)
    + Len(a.raga_list) + Len(a.tala_list) + Len(a.instrument_list)

\* ------------------------------------------------------------------------
\* Corpora._get_metadata: the loop body (lines 116-139)
\* ------------------------------------------------------------------------
\* list.append(x)
AppendTo(s, name, x) ==
    [s EXCEPT !.acc[name] = Append(@, x), !.added = TRUE]

Raise(s) == [s EXCEPT !.ok = FALSE]

\* ArtistStep with the instrument appended inside the if of line 122
ArtistStep_instrumentOfLead(s, e) ==
    IF "lead" \notin DOMAIN e THEN Raise(s)
    ELSE IF ~e.lead THEN s
    ELSE IF "artist" \notin DOMAIN e THEN Raise(s)
    ELSE IF "instrument" \notin DOMAIN e
         THEN Raise(AppendTo(s, "artist_list", e.artist))
    ELSE AppendTo(AppendTo(s, "artist_list", e.artist),
                  "instrument_list", e.instrument)

\* lines 122-124: one iteration of the artists loop
ArtistStep(s, e) ==
    IF "lead" \notin DOMAIN e THEN Raise(s)
    ELSE LET s1 == IF e.lead
                   THEN IF "artist" \in DOMAIN e
                        THEN AppendTo(s, "artist_list", e.artist)
                        ELSE Raise(s)
                   ELSE s
         IN  IF ~s1.ok THEN s1
             ELSE IF "instrument" \in DOMAIN e
                  THEN AppendTo(s1, "instrument_list", e.instrument)
                  ELSE Raise(s1)

\* lines 127, 130, 133, 136: one iteration of the other four loops
ListStep(s, name, e) == AppendTo(s, name, e)

\* line 137: recording_list.append(rec["mbid"])
AppendRecording(a, rec) == [a EXCEPT !.recording_list = Append(@, rec)]

\* ExceptContinue with the recording's mbid appended in the except branch
ExceptContinue_appends(s) ==
    /\ acc' = AppendRecording(s.acc, collection[idx])
    /\ kept' = (kept \/ s.added)
    /\ added' = FALSE
    /\ failed' = failed \cup {idx}
    /\ idx' = idx + 1
    /\ stage' = 1
    /\ pos' = "fetch"
    /\ entry' = NoEntry

\* lines 138-139: except: continue. Nothing is undone.
ExceptContinue(s) ==
    /\ acc' = s.acc
    /\ kept' = (kept \/ s.added)
    /\ added' = FALSE
    /\ failed' = failed \cup {idx}
    /\ idx' = idx + 1
    /\ stage' = 1
    /\ pos' = "fetch"
    /\ entry' = NoEntry

InLoop == call = "running" /\ idx <= Len(collection)

Cur == [acc |-> acc, added |-> added, ok |-> TRUE]

\* lines 121, 126, 129, 132, 135: get_recording(rec["mbid"])[field]. The call
\* or the subscript raises (fetch error, missing key), or it yields the list
\* the for loop then walks
GetRecording ==
    /\ InLoop /\ pos = "fetch"
    /\ fetches' = IF stage = 1 THEN 1 ELSE fetches + 1
    /\ \E ok \in BOOLEAN :
         IF ok THEN /\ pos' = "loop"
                    /\ UNCHANGED <<acc, added, kept, failed, idx, stage, entry>>
         ELSE ExceptContinue(Cur)
    /\ UNCHANGED <<call, collection, metadata, attrs, listing_ok, calls, served,
                   cvars, svars>>

\* lines 121-124: the artists loop takes the next entry of the list
ArtistsIteration ==
    /\ InLoop /\ pos = "loop" /\ Stages[stage] = "artists"
    /\ \E e \in ArtistEntries :
         LET s == ArtistStep(Cur, e)
         IN  /\ TotalLen(s.acc) + served.entries <= MaxEntities
             /\ IF s.ok
                THEN /\ acc' = s.acc
                     /\ added' = s.added
                     /\ entry' = e
                     /\ UNCHANGED <<kept, failed, idx, stage, pos>>
                ELSE ExceptContinue(s)
    /\ UNCHANGED <<call, collection, metadata, attrs, listing_ok, fetches,
                   calls, served, cvars, svars>>

\* lines 126-136: the concert, work, raaga or taala loop takes the next entry
ListIteration ==
    /\ InLoop /\ pos = "loop" /\ Stages[stage] # "artists"
    /\ \E e \in Entities(KeyOf(ListOf(Stages[stage]))) :
         LET s == ListStep(Cur, ListOf(Stages[stage]), e)
         IN  /\ TotalLen(s.acc) + served.entries <= MaxEntities
             /\ acc' = s.acc
             /\ added' = s.added
    /\ UNCHANGED <<kept, failed, idx, stage, pos, fetches, entry>>
    /\ UNCHANGED <<call, collection, metadata, attrs, listing_ok, calls, served,
                   cvars, svars>>

\* the list is exhausted: on to the next get_recording call, and after the
\* taala loop to line 137 and the next recording
EndOfList ==
    /\ InLoop /\ pos = "loop"
    /\ pos' = "fetch"
    /\ IF stage < Len(Stages)
       THEN /\ stage' = stage + 1
            /\ UNCHANGED <<acc, idx, added>>
       ELSE /\ acc' = AppendRecording(acc, collection[idx])
            /\ stage' = 1
            /\ idx' = idx + 1
            /\ added' = FALSE
    /\ entry' = NoEntry
    /\ UNCHANGED <<kept, failed, fetches>>
    /\ UNCHANGED <<call, collection, metadata, attrs, listing_ok, calls, served,
                   cvars, svars>>

\* ------------------------------------------------------------------------
\* Corpora._get_metadata: deduplication and return (lines 141-149)
\* ------------------------------------------------------------------------
\* position of the entry of d whose identifier is id, 0 if there is none
PosOf(d, key, id) ==
    IF \E j \in DOMAIN d : d[j][key] = id
    THEN CHOOSE j \in DOMAIN d : d[j][key] = id
    ELSE 0

\* DictPut that keeps every entry: no deduplication
DictPut_appends(d, key, x) == Append(d, x)

\* DictPut that keeps the first value of a key
DictPut_firstWins(d, key, x) ==
    IF PosOf(d, key, x[key]) = 0 THEN Append(d, x) ELSE d

\* d[x[key]] = x of a Python dict kept as the sequence of its values in
\* insertion order: a key already present keeps its position and takes the
\* new value
DictPut(d, key, x) ==
    IF PosOf(d, key, x[key]) = 0 THEN Append(d, x)
    ELSE [d EXCEPT ![PosOf(d, key, x[key])] = x]

\* list({x[key]: x for x in l}.values())
RECURSIVE DictValues(_, _, _)
DictValues(d, l, key) ==
    IF l = <<>> THEN d
    ELSE DictValues(DictPut(d, key, Head(l)), Tail(l), key)

Dedup(l, key) == DictValues(<<>>, l, key)

\* x[key] raises: KeyError on a dict without the key, TypeError on None
KeyRaises(l, key) == \E j \in DOMAIN l : key \notin DOMAIN l[j]

ReturnRaises(a) == \E n \in ListNames : KeyRaises(a[n], KeyOf(n))

ReturnValue(a) ==
    [n \in ListNames \cup {"recording_list"} |->
        IF n = "recording_list" THEN a.recording_list
        ELSE Dedup(a[n], KeyOf(n))]

\* ------------------------------------------------------------------------
\* Corpora.get_metadata (lines 80-99)
\* ------------------------------------------------------------------------
NoMetadata == [unset |-> TRUE]

\* line 85 entering _get_metadata, lines 108-117: the locals are emptied and
\* get_collection is called; if it raises, get_metadata raises ValueError
StartCall ==
    /\ \/ /\ call' = "raised"
          /\ collection' = <<>>
          /\ listing_ok' = FALSE
       \/ \E c \in Collections :
             /\ Len(c) + served'.recordings <= MaxRecs
             /\ collection' = c
             /\ listing_ok' = TRUE
             /\ call' = "running"
    /\ idx' = 1
    /\ stage' = 1
    /\ pos' = "fetch"
    /\ acc' = EmptyAcc
    /\ added' = FALSE
    /\ kept' = FALSE
    /\ failed' = {}
    /\ fetches' = 0
    /\ entry' = NoEntry
    /\ calls' = calls + 1
    /\ UNCHANGED <<metadata, attrs, cvars, svars>>

GetMetadata ==
    /\ call = "idle"
    /\ UNCHANGED served
    /\ StartCall

AttrNames == ListNames \cup {"recording_list"}

\* AttrsAfter with self.recording_list kept up to date by the loop itself
AttrsAfter_partial(old, a) ==
    IF ReturnRaises(a)
    THEN [n \in AttrNames |->
            IF n = "recording_list" THEN a.recording_list
            ELSE IF n \in DOMAIN old THEN old[n] ELSE << >>]
    ELSE [n \in AttrNames |-> ReturnValue(a)[n]]

\* lines 84-99: the attributes of the object after get_metadata, old being
\* the attributes before: the seven assignments of lines 87-93 run only
\* after _get_metadata has returned
AttrsAfter(old, a) ==
    IF ReturnRaises(a) THEN old
    ELSE [n \in AttrNames |-> ReturnValue(a)[n]]

\* lines 141-149 and 87-99: the loop is over; the dictionary is built and
\* get_metadata copies it to the object, or building it raises and
\* get_metadata raises ValueError
Return ==
    /\ call = "running" /\ idx > Len(collection)
    /\ IF ReturnRaises(acc)
       THEN /\ call' = "raised"
            /\ UNCHANGED metadata
       ELSE /\ call' = "returned"
            /\ metadata' = ReturnValue(acc)
    /\ attrs' = AttrsAfter(attrs, acc)
    /\ UNCHANGED <<collection, idx, stage, pos, acc, listing_ok, failed, added, kept,
                   fetches, entry, calls, served, cvars, svars>>

\* the caller calls get_metadata again on the same object; the finished call
\* is taken off the run's budgets: what it listed and appended, and one more
\* of each for the call itself
Again ==
    /\ call \in {"returned", "raised"}
    /\ calls < MaxCalls
    /\ served' = [recordings |-> served.recordings + Len(collection) + 1,
                  entries |-> served.entries + TotalLen(acc) + 1]
    /\ StartCall

MInit ==
    /\ call = "idle"
    /\ collection = <<>>
    /\ idx = 1
    /\ stage = 1
    /\ pos = "fetch"
    /\ acc = EmptyAcc
    /\ metadata = NoMetadata
    /\ attrs = NoMetadata
    /\ listing_ok = FALSE
    /\ failed = {}
    /\ added = FALSE
    /\ kept = FALSE
    /\ fetches = 0
    /\ entry = NoEntry
    /\ calls = 0
    /\ served = [recordings |-> 0, entries |-> 0]

\* ------------------------------------------------------------------------
\* CAEWrapper: configuration (lines 87-146)
\* ------------------------------------------------------------------------
\* line 118-120: the required keys, in the order validate_conf walks them
RequiredKeys == <<"n_bins", "length_ngram", "n_bases", "dropout",
                  "sr", "bins_per_oct", "fmin", "hop_length">>

KeySet == {RequiredKeys[i] : i \in DOMAIN RequiredKeys}

\* the Python types a value read with unrepr=True can have
Types == {"int", "bool", "float", "str"}

\* isinstance(x, cls): bool is a subclass of int
IsInstance(x, cls) ==
    CASE cls = "int" -> x.t \in {"int", "bool"}
      [] cls = "float" -> x.t = "float"
      [] cls = "float_or_int" -> x.t \in {"float", "int", "bool"}

\* TypeChecks with dropout checked like fmin
TypeChecks_dropoutLoose == <<
    <<"n_bins", "int">>, <<"length_ngram", "int">>, <<"n_bases", "int">>,
    <<"dropout", "float_or_int">>, <<"sr", "int">>, <<"bins_per_oct", "int">>,
    <<"fmin", "float_or_int">>, <<"hop_length", "int">> >>

\* lines 124-146: the class each key is checked against, in order
TypeChecks == <<
    <<"n_bins", "int">>, <<"length_ngram", "int">>, <<"n_bases", "int">>,
    <<"dropout", "float">>, <<"sr", "int">>, <<"bins_per_oct", "int">>,
    <<"fmin", "float_or_int">>, <<"hop_length", "int">> >>

\* a value of type t for key k; l and r are the numbers the configuration
\* gives length_ngram and sr; True counts as 1
ConfValue(k, t, l, r) ==
    [t |-> t,
     v |-> IF t = "int"
           THEN (IF k = "length_ngram" THEN l ELSE IF k = "sr" THEN r ELSE 1)
           ELSE IF t = "bool" THEN 1 ELSE 0]

BaseType(k) == IF k \in {"dropout", "fmin"} THEN "float" ELSE "int"

\* the configurations load_conf may return: a well-typed one in which the
\* keys of d are absent or of the type ch gives them
Conf(d, ch, l, r) ==
    [k \in {x \in KeySet : x \in d => ch[x] # "absent"} |->
        ConfValue(k, IF k \in d THEN ch[k] ELSE BaseType(k), l, r)]

NoError == [kind |-> "none", key |-> "none"]

Min(S) == CHOOSE x \in S : \A y \in S : x <= y

\* MissingKey whose message names the first key of the list
MissingKey_namesFirst(conf) ==
    LET missing == {i \in DOMAIN RequiredKeys : RequiredKeys[i] \notin DOMAIN conf}
    IN  IF missing = {} THEN NoError
        ELSE [kind |-> "missing", key |-> RequiredKeys[1]]

\* lines 118-122: the first required key that is absent
MissingKey(conf) ==
    LET missing == {i \in DOMAIN RequiredKeys : RequiredKeys[i] \notin DOMAIN conf}
    IN  IF missing = {} THEN NoError
        ELSE [kind |-> "missing", key |-> RequiredKeys[Min(missing)]]

\* lines 124-146: the first key whose value is of the wrong class
TypeError(conf) ==
    LET wrong == {i \in DOMAIN TypeChecks :
                    ~IsInstance(conf[TypeChecks[i][1]], TypeChecks[i][2])}
    IN  IF wrong = {} THEN NoError
        ELSE [kind |-> "type", key |-> TypeChecks[Min(wrong)][1]]

\* lines 107-146: the ValueError validate_conf raises, NoError if it returns
validate_conf(conf) ==
    IF MissingKey(conf) # NoError THEN MissingKey(conf) ELSE TypeError(conf)

NoParams == <<>>

\* lines 39-85: __init__
Construct ==
    /\ cae = "new"
    /\ \E importOk \in BOOLEAN, loadOk \in BOOLEAN, gpu \in BOOLEAN,
          l \in 1..MaxNgram, r \in 1..MaxRate,
          d \in {x \in SUBSET KeySet : Cardinality(x) <= MaxDeviations} :
         \E ch \in [d -> Types \cup {"absent"}] :
           LET conf == Conf(d, ch, l, r) IN
           IF ~importOk
           THEN \* lines 66-70
                /\ cae' = "failed"
                /\ error' = [kind |-> "import", key |-> "none"]
                /\ UNCHANGED <<params, unpacked, model_loaded, cuda>>
           ELSE
             /\ params' = conf                               \* line 76
             /\ IF validate_conf(conf) # NoError             \* line 77
                THEN /\ cae' = "failed"
                     /\ error' = validate_conf(conf)
                     /\ UNCHANGED <<unpacked, model_loaded, cuda>>
                ELSE /\ unpacked' = conf                     \* lines 79-81
                     /\ IF loadOk                            \* line 83
                        THEN /\ model_loaded' = TRUE
                             /\ cuda' = gpu                  \* line 85
                             /\ cae' = "ready"
                             /\ error' = NoError
                        ELSE /\ cae' = "failed"
                             /\ error' = [kind |-> "load", key |-> "none"]
                             /\ UNCHANGED <<model_loaded, cuda>>
    /\ UNCHANGED <<last_call, transform_sr, ngrams, result, mvars, svars>>

\* ------------------------------------------------------------------------
\* CAEWrapper: feature extraction (lines 166-231)
\* ------------------------------------------------------------------------
\* the sr argument left at its default None
NoneSr == -1

\* truth value of an sr argument: None and 0 are false
Truthy(sr) == sr # NoneSr /\ sr # 0

\* lines 178 and 199: sr = sr if sr else self.sr
SrOrDefault(sr) == IF Truthy(sr) THEN sr ELSE unpacked["sr"].v

\* line 180: the sr extract_features hands to get_cqt
ExtractFeaturesSrArg(sr) == NoneSr

\* lines 199-202: the sr get_cqt hands to to_cqt_repr
GetCqtSr(sr) == SrOrDefault(sr)

\* the matrix get_cqt returns for an audio of t frames: rows are time frames
Cqt(t) == [i \in 1..t |-> i]

\* line 222: range(0, n, 1), as the sequence of its values
Range0(n) == [k \in 1..(IF n > 0 THEN n ELSE 0) |-> k - 1]

\* line 223: cqt[i:i + n], a Python slice (cut at the end of the matrix)
Slice(cqt, i, n) ==
    SubSeq(cqt, i + 1, IF i + n <= Len(cqt) THEN i + n ELSE Len(cqt))

\* lines 221-225: the list ngrams
Ngrams(cqt, n) ==
    LET offsets == Range0(Len(cqt) - n)
    IN  [k \in DOMAIN offsets |-> Slice(cqt, offsets[k], n)]

\* lines 227-231: np.vstack raises ValueError on an empty list; the model
\* returns one row of amplitudes and of phases per n-gram
AmpPhase(ng) ==
    IF ng = <<>> THEN [status |-> "ValueError", rows |-> 0]
    ELSE [status |-> "ok", rows |-> Len(ng)]

Ready == cae = "ready"

\* lines 206-231
to_amp_phase ==
    /\ Ready
    /\ \E t \in 0..MaxFrames :
         /\ ngrams' = Ngrams(Cqt(t), unpacked["length_ngram"].v)
         /\ result' = AmpPhase(ngrams')
         /\ last_call' = [op |-> "to_amp_phase", sr |-> NoneSr, frames |-> t]
    /\ UNCHANGED <<transform_sr>>
    /\ UNCHANGED <<cae, params, unpacked, model_loaded, cuda, error, mvars, svars>>

\* lines 186-204
get_cqt ==
    /\ Ready
    /\ \E t \in 0..MaxFrames, sr \in {NoneSr} \cup 0..MaxRate :
         /\ transform_sr' = GetCqtSr(sr)
         /\ result' = [status |-> "ok", rows |-> t]
         /\ last_call' = [op |-> "get_cqt", sr |-> sr, frames |-> t]
    /\ UNCHANGED <<ngrams>>
    /\ UNCHANGED <<cae, params, unpacked, model_loaded, cuda, error, mvars, svars>>

\* lines 166-184: extract_features calls get_cqt, then to_amp_phase
extract_features ==
    /\ Ready
    /\ \E t \in 0..MaxFrames, sr \in {NoneSr} \cup 0..MaxRate :
         /\ transform_sr' = GetCqtSr(ExtractFeaturesSrArg(SrOrDefault(sr)))
         /\ ngrams' = Ngrams(Cqt(t), unpacked["length_ngram"].v)
         /\ result' = AmpPhase(ngrams')
         /\ last_call' = [op |-> "extract_features", sr |-> sr, frames |-> t]
    /\ UNCHANGED <<cae, params, unpacked, model_loaded, cuda, error, mvars, svars>>

NoCall == [op |-> "none", sr |-> NoneSr, frames |-> 0]

CInit ==
    /\ cae = "new"
    /\ params = NoParams
    /\ unpacked = NoParams
    /\ model_loaded = FALSE
    /\ cuda = FALSE
    /\ error = NoError
    /\ last_call = NoCall
    /\ transform_sr = NoneSr
    /\ ngrams = <<>>
    /\ result = [status |-> "none", rows |-> 0]

\* ------------------------------------------------------------------------
\* Corpora.save_annotation (lines 285-312)
\* ------------------------------------------------------------------------
\* strings are sequences of characters
tonic == <<"t", "o", "n", "i", "c">>
aksharaPeriod == <<"a", "k", "s", "h", "a", "r", "a", "P", "e", "r", "i", "o", "d">>
section == <<"s", "e", "c", "t", "i", "o", "n">>
APcurve == <<"A", "P", "c", "u", "r", "v", "e">>
pitch == <<"p", "i", "t", "c", "h">>
aksharaTicks == <<"a", "k", "s", "h", "a", "r", "a", "T", "i", "c", "k", "s">>
foobar == <<"f", "o", "o", "b", "a", "r">>

\* the words the subtypes of the model are made of
Words == {tonic, aksharaPeriod, section, APcurve, pitch, aksharaTicks,
          foobar, <<"s">>}

RECURSIVE Strings(_)
Strings(n) ==
    IF n = 0 THEN {<< >>}
    ELSE Strings(n - 1) \cup {s \o w : s \in Strings(n - 1), w \in Words}

\* the subtype argument: a string, or None (the default)
SubtypeArgs ==
    {[none |-> FALSE, s |-> x] : x \in Strings(MaxWords)}
    \cup {[none |-> TRUE, s |-> << >>]}

\* Python's "sub in s" on strings
In(sub, s) ==
    \E i \in 1..(Len(s) - Len(sub) + 1) : SubSeq(s, i, i + Len(sub) - 1) = sub

\* Writer with the section branch tested first
Writer_sectionFirst(s) ==
    IF In(section, s) THEN "write_json"
    ELSE IF In(tonic, s) \/ In(aksharaPeriod, s) THEN "write_scalar_txt"
    ELSE IF In(APcurve, s) THEN "write_csv"
    ELSE IF In(pitch, s) \/ In(aksharaTicks, s) THEN "write_csv"
    ELSE "none"

\* lines 301-312: the writer the if/elif chain calls, "none" when it raises
\* ValueError
Writer(s) ==
    IF In(tonic, s) \/ In(aksharaPeriod, s) THEN "write_scalar_txt"
    ELSE IF In(section, s) THEN "write_json"
    ELSE IF In(APcurve, s) THEN "write_csv"
    ELSE IF In(pitch, s) \/ In(aksharaTicks, s) THEN "write_csv"
    ELSE "none"

\* lines 285-312
save_annotation ==
    /\ \E st \in SubtypeArgs, fetchOk \in BOOLEAN :
         /\ subtype' = st
         /\ IF ~fetchOk
            THEN \* lines 298-300: _file_for_document raises
                 /\ written' = << >>
                 /\ outcome' = "fetch_error"
            ELSE IF st.none
            THEN \* line 301: "tonic" in None raises TypeError
                 /\ written' = << >>
                 /\ outcome' = "TypeError"
            ELSE IF Writer(st.s) = "none"
            THEN /\ written' = << >>
                 /\ outcome' = "ValueError"
            ELSE /\ written' = <<Writer(st.s)>>
                 /\ outcome' = "ok"
    /\ UNCHANGED <<mvars, cvars>>

SInit ==
    /\ subtype = [none |-> TRUE, s |-> << >>]
    /\ written = << >>
    /\ outcome = "none"

\* ------------------------------------------------------------------------
\* Specifications
\* ------------------------------------------------------------------------
Init == MInit /\ CInit /\ SInit

\* Corpora.get_metadata
Next ==
    \/ GetMetadata
    \/ GetRecording
    \/ ArtistsIteration
    \/ ListIteration
    \/ EndOfList
    \/ Return

Spec == Init /\ [][Next]_vars

\* Corpora.get_metadata called repeatedly on one object
NextCalls ==
    \/ GetMetadata
    \/ GetRecording
    \/ ArtistsIteration
    \/ ListIteration
    \/ EndOfList
    \/ Return
    \/ Again

SpecCalls == Init /\ [][NextCalls]_vars

\* CAEWrapper
NextCAE ==
    \/ Construct
    \/ to_amp_phase
    \/ get_cqt
    \/ extract_features

SpecCAE == Init /\ [][NextCAE]_vars

\* Corpora.save_annotation
NextSave == save_annotation

SpecSave == Init /\ [][NextSave]_vars

\* ------------------------------------------------------------------------
\* Properties of to_amp_phase
\* ------------------------------------------------------------------------
WindowCalls == {"to_amp_phase", "extract_features"}

\* C1: for a matrix of T frames and L = length_ngram, to_amp_phase builds
\* T - L + 1 windows when T >= L and none when T < L, the k-th window being
\* the L frames that start at offset k - 1
C1_WindowCount ==
    last_call.op \in WindowCalls =>
        LET T == last_call.frames
            L == unpacked["length_ngram"].v
        IN  /\ Len(ngrams) = IF T >= L THEN T - L + 1 ELSE 0
            /\ \A k \in DOMAIN ngrams : ngrams[k] = [j \in 1..L |-> k - 1 + j]

\* ------------------------------------------------------------------------
\* Properties of _get_metadata
\* ------------------------------------------------------------------------
\* C2: no entry of an accumulator was appended while processing a recording
\* whose processing failed
C2_NoPartialContribution == ~kept

\* the mbids of the recordings among the first n whose try block completed
RECURSIVE Succeeded(_)
Succeeded(n) ==
    IF n = 0 THEN << >>
    ELSE IF n \in failed THEN Succeeded(n - 1)
         ELSE Append(Succeeded(n - 1), collection[n])

Range(f) == {f[i] : i \in DOMAIN f}

IdsOf(l, key) == {l[j][key] : j \in DOMAIN l}

\* C4: in every returned list no two entries share an identifier, and the
\* list's identifiers are those of the accumulator it was built from
C4_UniqueIds ==
    call = "returned" =>
        \A n \in ListNames :
            /\ \A i, j \in DOMAIN metadata[n] :
                  i # j => metadata[n][i][KeyOf(n)] # metadata[n][j][KeyOf(n)]
            /\ IdsOf(metadata[n], KeyOf(n)) = IdsOf(acc[n], KeyOf(n))

C4_Witness ==
    /\ call = "returned"
    /\ \E n \in ListNames : Len(metadata[n]) = 1 /\ Len(acc[n]) = 2

\* the last entry of l with identifier id
LastWith(l, key, id) ==
    l[CHOOSE j \in DOMAIN l :
        /\ l[j][key] = id
        /\ \A m \in DOMAIN l : m > j => l[m][key] # id]

\* C5: the record that survives for an identifier is the last one appended
\* with it (the accumulators are in the order the entries were processed)
C5_LastWins ==
    call = "returned" =>
        \A n \in ListNames : \A i \in DOMAIN metadata[n] :
            metadata[n][i] = LastWith(acc[n], KeyOf(n), metadata[n][i][KeyOf(n)])

C5_Witness ==
    /\ call = "returned"
    /\ \E n \in ListNames :
          /\ Len(acc[n]) = 2
          /\ acc[n][1][KeyOf(n)] = acc[n][2][KeyOf(n)]
          /\ acc[n][1] # acc[n][2]
          /\ metadata[n] = <<acc[n][2]>>

\* C6: the call raises only if listing the collection failed
C6_FailsOnlyOnListing == call = "raised" => ~listing_ok

\* ------------------------------------------------------------------------
\* Properties of CAEWrapper.__init__ and validate_conf
\* ------------------------------------------------------------------------
\* the constructor got as far as loading a configuration
ConfLoaded == cae # "new" /\ error.kind # "import"

NothingConstructed == DOMAIN unpacked = {} /\ ~model_loaded

IsInteger(x) == x.t \in {"int", "bool"}
IsFloat(x) == x.t = "float"

WellTyped(conf) ==
    /\ \A k \in {"n_bins", "length_ngram", "n_bases", "sr", "bins_per_oct",
                 "hop_length"} : IsInteger(conf[k])
    /\ IsFloat(conf["dropout"])
    /\ IsInteger(conf["fmin"]) \/ IsFloat(conf["fmin"])

Dispatched == outcome \in {"ok", "ValueError"}

IsCsv(s) == In(pitch, s) \/ In(APcurve, s) \/ In(aksharaTicks, s)
IsScalar(s) == In(tonic, s) \/ In(aksharaPeriod, s)
IsJson(s) == In(section, s)

\* C9 as stated: each keyword selects its writer whatever else the subtype
\* contains
C9_Original ==
    Dispatched =>
        /\ IsCsv(subtype.s) => written = <<"write_csv">>
        /\ IsScalar(subtype.s) => written = <<"write_scalar_txt">>
        /\ IsJson(subtype.s) => written = <<"write_json">>
        /\ ~(IsCsv(subtype.s) \/ IsScalar(subtype.s) \/ IsJson(subtype.s)) =>
              outcome = "ValueError" /\ written = << >>
        /\ outcome = "ok" => Len(written) = 1

\* C9: the keywords are tried in the order scalar, JSON, CSV: a subtype
\* containing "tonic" or "aksharaPeriod" selects the scalar-text writer;
\* otherwise one containing "section" the JSON writer; otherwise one
\* containing "APcurve", "pitch" or "aksharaTicks" the CSV writer; otherwise
\* the call raises ValueError and no writer runs; on success one writer runs once
C9_Dispatch ==
    Dispatched =>
        /\ IsScalar(subtype.s) => written = <<"write_scalar_txt">>
        /\ (~IsScalar(subtype.s) /\ IsJson(subtype.s)) => written = <<"write_json">>
        /\ (~IsScalar(subtype.s) /\ ~IsJson(subtype.s) /\ IsCsv(subtype.s)) =>
              written = <<"write_csv">>
        /\ ~(IsCsv(subtype.s) \/ IsScalar(subtype.s) \/ IsJson(subtype.s)) =>
              outcome = "ValueError" /\ written = << >>
        /\ outcome = "ok" => Len(written) = 1

C9_Witness ==
    /\ outcome = "ok"
    /\ IsJson(subtype.s) /\ IsScalar(subtype.s)
    /\ written = <<"write_scalar_txt">>

\* ------------------------------------------------------------------------
\* Properties of extract_features
\* ------------------------------------------------------------------------
\* C10: extract_features hands the transform the caller's sr when one is
\* given, and self.sr otherwise
C10_CallerSrUsed ==
    last_call.op = "extract_features" =>
        transform_sr = IF Truthy(last_call.sr) THEN last_call.sr
                       ELSE unpacked["sr"].v

\* ------------------------------------------------------------------------
\* Properties of the get_recording calls and of the artists loop
\* ------------------------------------------------------------------------
\* C11: one get_recording call is issued per recording: never a second one
\* for the recording fetched last, and one for every recording the loop has
\* reached (the loop takes the recordings one after the other, in the order
\* of the listing)
C11_OneFetchPerRecording ==
    /\ fetches <= 1
    /\ (call = "running" /\ (idx > 1 \/ pos = "loop")) => fetches = 1

\* C13: an iteration of the artists loop that completes appends the entry's
\* artist exactly when the entry is marked lead, and appends the entry's
\* instrument whether it is or not
C13_LeadAndInstrument ==
    [][entry' # NoEntry =>
        /\ entry'.lead => "artist" \in DOMAIN entry'
        /\ acc'.artist_list = IF entry'.lead
                              THEN Append(acc.artist_list, entry'.artist)
                              ELSE acc.artist_list
        /\ "instrument" \in DOMAIN entry'
        /\ acc'.instrument_list = Append(acc.instrument_list, entry'.instrument)
      ]_vars

C13_Witness ==
    /\ entry # NoEntry
    /\ ~entry.lead
    /\ "artist" \in DOMAIN entry
    /\ acc.artist_list = << >>
    /\ acc.instrument_list = <<entry.instrument>>

\* C12: get_metadata is all-or-nothing on the object: a call that raises
\* leaves the seven attributes as they were, the attributes change only when
\* a call returns, all seven then being those of the dictionary that call
\* got, so that whatever calls were made the seven attributes are unset or
\* are those of the dictionary of one successful call
C12_AllOrNothing ==
    /\ [](attrs = metadata)
    /\ [][/\ call' = "raised" => attrs' = attrs
          /\ attrs' # attrs => /\ call = "running" /\ call' = "returned"
                               /\ DOMAIN attrs' = AttrNames
                               /\ \A n \in AttrNames : attrs'[n] = ReturnValue(acc)[n]
         ]_vars

\* a second call has raised in the aggregation, after listing a recording,
\* on an object that holds the result of the first call
C12_Witness ==
    /\ calls = 2
    /\ call = "raised"
    /\ listing_ok
    /\ attrs # NoMetadata
    /\ acc.recording_list # attrs.recording_list

====
